---- MODULE Spec2Model ----
(***************************************************************************)
(* A model of the ThreadPool class (University of Michigan Solar Car Team  *)
(* thread pool): the job queue, the mutex data_lock, the condition         *)
(* variable cv, the atomic running flag, the worker threads running        *)
(* worker_loop, the client threads calling detach_task, detach_tasks,      *)
(* run_tasks and run_loop, and the owner thread calling reset and the      *)
(* destructor.  Every step is one atomic region of the code: a block of    *)
(* statements between two points where another thread can interleave.      *)
(***************************************************************************)
EXTENDS Integers, Sequences, FiniteSets, TLC

\* ------------------------------------------------------------------ bounds
\* the largest number of worker threads the pool is grown to
MaxThreads == 2
\* the largest number of tasks in one detach_tasks / run_tasks batch
MaxBatch == 2
\* the queue length at which a run_loop whose enqueue loop does not end stops
MaxQueue == 4

Workers == 1..MaxThreads
\* the client (producer) threads; each makes one call of the API
Clients == {1, 2}

\* A task body that calls run_tasks makes the call on its worker thread:
\* Nest(w) is the call made from a body running on worker w.
Nest(w) == Cardinality(Clients) + w
NestedCallers == {Nest(w) : w \in Workers}
Callers == Clients \cup NestedCallers

\* ------------------------------------------------------------------- state
VARIABLES
    rev,        \* which revision of the class is compiled: Revisions
    running,    \* std::atomic<bool> running
    nthreads,   \* threads.size(); worker i exists iff i <= nthreads
    jobs,       \* std::queue<Job> jobs, head first
    data_lock,  \* std::mutex data_lock: the thread that holds it, or NoThread
    cv,         \* std::condition_variable cv: the workers blocked in cv.wait
    wpc,        \* each worker's position in worker_loop
    wjob,       \* each worker's local variable job
    cpc,        \* each client's position in its API call
    cop,        \* each client's current call: operation and arguments
    ck,         \* each client's loop counter (the range-for / for index)
    sem,        \* the std::counting_semaphore local to each client's blocking call
    dpc,        \* the owner's position in ~ThreadPool
    dj,         \* the destructor's join loop: the index of the thread being joined
    threw,      \* whether the owner's last reset call threw std::runtime_error
    grown,      \* history: the workers that a reset call added
    enq,        \* history: the tasks in the order their emplace happened
    deq,        \* history: the tasks in the order they were popped
    begun,      \* history: the tasks whose bodies have begun
    done,       \* history: the tasks whose bodies have finished
    stopq,      \* history: the content of jobs when the destructor cleared running
    stopn       \* history: the length of enq at that moment

vars == <<rev, running, nthreads, jobs, data_lock, cv, wpc, wjob, cpc, cop, ck,
          sem, dpc, dj, threw, grown, enq, deq, begun, done, stopq,
          stopn>>

pool == <<running, nthreads, jobs, data_lock, cv, wpc, wjob>>
client == <<cpc, cop, ck, sem>>
owner == <<dpc, dj, threw, grown>>
hist == <<enq, deq, begun, done, stopq, stopn>>

\* The repository holds two revisions of the class.  ThreadPool.hpp has
\* detach_task and detach_tasks only, and notifies before it releases
\* data_lock; the later revision (part_000) adds run_tasks and run_loop and
\* notifies after the release.  worker_loop, reset and the destructor are the
\* same in both.
Revisions == {"ThreadPool.hpp", "part_000"}

NoThread == <<"none", 0>>
WorkerThread(w) == <<"worker", w>>
ClientThread(c) == <<"client", c>>
OwnerThread == <<"owner", 0>>

\* A queued Job: the std::function stored by jobs.emplace.  c and k name the
\* call that made it and its place in it (client, loop counter); wrapped
\* says that the lambda of run_tasks / run_loop surrounds the task body and
\* releases the semaphore of that call after it.
Job(c, k, wrapped) == [c |-> c, k |-> k, wrapped |-> wrapped]
NoJob == [c |-> 0, k |-> 0, wrapped |-> FALSE]

\* A call of the API: the operation, the size of the span of tasks
\* (detach_tasks, run_tasks), and start, end and the argument type of the loop
\* body (run_loop).
Call(op, size, start, end, ty) ==
    [op |-> op, size |-> size, start |-> start, end |-> end, ty |-> ty]
NoCall == Call("none", 0, 0, 0, "size_t")

\* ------------------------------------------------------------ the condition
\* cv.notify_all(): every thread blocked in cv.wait becomes runnable; it
\* still has to take data_lock again before cv.wait returns.
notify_all(pcs) == [w \in Workers |-> IF w \in cv THEN "relock" ELSE pcs[w]]

\* a notify_one that wakes nobody: the notification is lost
notify_one_lost(pcs, w) == pcs

\* cv.notify_one() wakes the blocked thread w.
notify_one(pcs, w) == [pcs EXCEPT ![w] = "relock"]

\* ----------------------------------------------------------- construction
\* reset(num_threads): grows the vector of threads; each new thread starts
\* at the top of worker_loop.  Shrinking throws and changes nothing.
\* a reset that accepts every size
reset_any(num_threads) == TRUE

\* a reset that records the new size and starts no thread
reset_pcs_none(num_threads) == wpc

reset_ok(num_threads) == num_threads >= nthreads

reset_pcs(num_threads) ==
    [w \in Workers |-> IF w > nthreads /\ w <= num_threads THEN "test" ELSE wpc[w]]

\* ThreadPool(num_threads): reset(num_threads) on the empty pool.
Init ==
    /\ rev \in Revisions
    /\ running = TRUE
    /\ nthreads \in 0..MaxThreads
    /\ jobs = <<>>
    /\ data_lock = NoThread
    /\ cv = {}
    /\ wpc = [w \in Workers |-> IF w <= nthreads THEN "test" ELSE "none"]
    /\ wjob = [w \in Workers |-> NoJob]
    /\ cpc = [c \in Callers |-> "idle"]
    /\ cop = [c \in Callers |-> NoCall]
    /\ ck = [c \in Callers |-> 0]
    /\ sem = [c \in Callers |-> 0]
    /\ dpc = "idle"
    /\ dj = 1
    /\ threw = FALSE
    /\ grown = {}
    /\ enq = <<>>
    /\ deq = <<>>
    /\ begun = {}
    /\ done = {}
    /\ stopq = <<>>
    /\ stopn = 0

\* ------------------------------------------------------------- worker_loop
\* while (running.load())
W_test(w) ==
    /\ wpc[w] = "test"
    /\ wpc' = [wpc EXCEPT ![w] = IF running THEN "lock" ELSE "exit"]
    /\ UNCHANGED <<running, nthreads, jobs, data_lock, cv, wjob>>
    /\ UNCHANGED <<client, owner, hist>>
    /\ UNCHANGED rev

\* std::unique_lock<std::mutex> lock(data_lock), and the re-acquisition of
\* data_lock by a thread that was woken inside cv.wait
W_lock(w) ==
    /\ wpc[w] \in {"lock", "relock"}
    /\ data_lock = NoThread
    /\ data_lock' = WorkerThread(w)
    /\ wpc' = [wpc EXCEPT ![w] = "pred"]
    /\ UNCHANGED <<running, nthreads, jobs, cv, wjob>>
    /\ UNCHANGED <<client, owner, hist>>
    /\ UNCHANGED rev

\* the predicate of cv.wait: !jobs.empty() || !running.load()
\* a wait whose predicate is always true: every wakeup goes on
wait_nopred == TRUE

wait_pred == jobs # <<>> \/ ~running

\* cv.wait(lock, pred) evaluates pred with the lock held: true, wait returns;
\* false, the thread goes on to block
W_pred(w) ==
    /\ wpc[w] = "pred"
    /\ wpc' = [wpc EXCEPT ![w] = IF wait_pred THEN "check" ELSE "block"]
    /\ UNCHANGED <<running, nthreads, jobs, data_lock, cv, wjob>>
    /\ UNCHANGED <<client, owner, hist>>
    /\ UNCHANGED rev

\* cv.wait(lock) after a false predicate: releases data_lock and blocks, in
\* one atomic step
W_block(w) ==
    /\ wpc[w] = "block"
    /\ data_lock' = NoThread
    /\ cv' = cv \cup {w}
    /\ wpc' = [wpc EXCEPT ![w] = "waiting"]
    /\ UNCHANGED <<running, nthreads, jobs, wjob>>
    /\ UNCHANGED <<client, owner, hist>>
    /\ UNCHANGED rev

\* a spurious wakeup, which std::condition_variable allows at any time
W_spurious(w) ==
    /\ wpc[w] = "waiting"
    /\ w \in cv
    /\ cv' = cv \ {w}
    /\ wpc' = [wpc EXCEPT ![w] = "relock"]
    /\ UNCHANGED <<running, nthreads, jobs, data_lock, wjob>>
    /\ UNCHANGED <<client, owner, hist>>
    /\ UNCHANGED rev

\* a worker that does not test running after the wait
W_check_skip(w) ==
    /\ wpc[w] = "check"
    /\ wpc' = [wpc EXCEPT ![w] = "pop"]
    /\ UNCHANGED <<running, nthreads, jobs, data_lock, cv, wjob>>
    /\ UNCHANGED <<client, owner, hist>>
    /\ UNCHANGED rev

\* if (!running.load()) return;  the return destroys lock, which unlocks
W_check(w) ==
    /\ wpc[w] = "check"
    /\ IF ~running
         THEN /\ wpc' = [wpc EXCEPT ![w] = "exit"]
              /\ data_lock' = NoThread
         ELSE /\ wpc' = [wpc EXCEPT ![w] = "pop"]
              /\ data_lock' = data_lock
    /\ UNCHANGED <<running, nthreads, jobs, cv, wjob>>
    /\ UNCHANGED <<client, owner, hist>>
    /\ UNCHANGED rev

\* a pop that leaves the queue as it is
pop_keep(q) == q

\* a front that yields the newest job
front_last(q) == q[Len(q)]

\* jobs.front() and jobs.pop() of std::queue
front(q) == Head(q)
pop(q) == Tail(q)

\* a worker that keeps data_lock while it runs the job
W_pop_keeplock(w) ==
    /\ wpc[w] = "pop"
    /\ jobs # <<>>
    /\ wjob' = [wjob EXCEPT ![w] = front(jobs)]
    /\ jobs' = pop(jobs)
    /\ deq' = Append(deq, front(jobs))
    /\ wpc' = [wpc EXCEPT ![w] = "call"]
    /\ UNCHANGED <<running, nthreads, cv, data_lock>>
    /\ UNCHANGED <<client, owner, enq, begun, done, stopq, stopn>>
    /\ UNCHANGED rev

\* Job job = std::move(jobs.front()); jobs.pop(); lock.unlock();
\* front() of an empty std::queue is undefined behaviour: position "ub"
W_pop(w) ==
    /\ wpc[w] = "pop"
    /\ IF jobs = <<>>
         THEN /\ wpc' = [wpc EXCEPT ![w] = "ub"]
              /\ UNCHANGED <<jobs, wjob, deq>>
         ELSE /\ wjob' = [wjob EXCEPT ![w] = front(jobs)]
              /\ jobs' = pop(jobs)
              /\ deq' = Append(deq, front(jobs))
              /\ wpc' = [wpc EXCEPT ![w] = "call"]
    /\ data_lock' = NoThread
    /\ UNCHANGED <<running, nthreads, cv>>
    /\ UNCHANGED <<client, owner, enq, begun, done, stopq, stopn>>
    /\ UNCHANGED rev

\* The lambda of run_tasks / run_loop captures the task (loop_body) and sem
\* by reference: once the call that enqueued job j has returned, both
\* references dangle.
Dangling(j) == j.wrapped /\ cpc[j.c] \in {"ret", "ub"}

\* job.job(): the task body begins.  Calling through a dangling reference is
\* undefined behaviour: the body begins all the same, or the worker faults
\* before it is entered (position "ub").
W_begin(w) ==
    /\ wpc[w] = "call"
    /\ \/ /\ begun' = begun \cup {wjob[w]}
          /\ wpc' = [wpc EXCEPT ![w] = "body"]
       \/ /\ Dangling(wjob[w])
          /\ wpc' = [wpc EXCEPT ![w] = "ub"]
          /\ UNCHANGED begun
    /\ UNCHANGED <<running, nthreads, jobs, data_lock, cv, wjob>>
    /\ UNCHANGED <<client, owner, enq, deq, done, stopq, stopn>>
    /\ UNCHANGED rev

\* the task body returns; a wrapped task goes on to sem.release()
W_end(w) ==
    /\ wpc[w] = "body"
    /\ done' = done \cup {wjob[w]}
    /\ wpc' = [wpc EXCEPT ![w] = IF wjob[w].wrapped THEN "release" ELSE "test"]
    /\ UNCHANGED <<running, nthreads, jobs, data_lock, cv, wjob>>
    /\ UNCHANGED <<client, owner, enq, deq, begun, stopq, stopn>>
    /\ UNCHANGED rev

\* a release on one semaphore shared by every call
release_shared(s, j) == [s EXCEPT ![1] = @ + 1]

\* a release on a binary signal: a second release before an acquire is lost
release_binary(s, j) == [s EXCEPT ![j.c] = 1]

\* sem.release() of the lambda of run_tasks / run_loop: sem is the semaphore
\* captured by reference, local to the call that enqueued the job
release(s, j) == [s EXCEPT ![j.c] = @ + 1]

\* A release through a dangling reference writes into the stack of the
\* thread that made the call, which is undefined behaviour: it passes for a
\* release, or the worker faults, or the thread that made the call faults
\* (position "ub").
W_release(w) ==
    /\ wpc[w] = "release"
    /\ \/ /\ sem' = release(sem, wjob[w])
          /\ wpc' = [wpc EXCEPT ![w] = "test"]
          /\ UNCHANGED cpc
       \/ /\ Dangling(wjob[w])
          /\ wpc' = [wpc EXCEPT ![w] = "ub"]
          /\ UNCHANGED <<sem, cpc>>
       \/ /\ Dangling(wjob[w])
          /\ cpc' = [cpc EXCEPT ![wjob[w].c] = "ub"]
          /\ wpc' = [wpc EXCEPT ![w] = "test"]
          /\ UNCHANGED sem
    /\ UNCHANGED <<running, nthreads, jobs, data_lock, cv, wjob>>
    /\ UNCHANGED <<cop, ck, owner, hist>>
    /\ UNCHANGED rev


\* ------------------------------------------------------- the client calls
\* The argument types of the loop body of run_loop.  "size_t" also stands
\* for a body that takes no argument: induction_type is size_t for both.
\* The narrower types are the 8-bit integers.
IndexTypes == {"size_t", "uint8_t", "int8_t"}

\* induction_type i = start: the conversion of a size_t to induction_type
Conv(ty, v) ==
    CASE ty = "size_t" -> v
      [] ty = "uint8_t" -> v % 256
      [] ty = "int8_t" -> ((v + 128) % 256) - 128

\* ++i on induction_type (the conversion back from int is modular)
Incr(ty, i) == Conv(ty, i + 1)

\* i < end with i of induction_type and end a size_t: i is converted to
\* size_t, so a negative i is at least 2^63 and never below end (every end
\* used here is far below 2^63)
LoopCond(ty, i, end) == i >= 0 /\ i < end

\* for (induction_type i = start; i < end; ++i): after k increments i is
\* Conv(ty, start + k).  The loop ends within n iterations if the test fails
\* for one of the first n + 1 values of i; it never ends if the test holds
\* for all 256 values of an 8-bit i.
LoopEndsWithin(ty, start, end, n) ==
    \E k \in 0..n : ~LoopCond(ty, Conv(ty, start + k), end)

LoopNeverEnds(ty, start, end) ==
    /\ ty # "size_t"
    /\ \A k \in 0..255 : LoopCond(ty, Conv(ty, start + k), end)

Blocking(op) == op \in {"run_tasks", "run_loop"}

\* whether the enqueue loop of client c's call has another iteration
PushMore(c) ==
    IF cop[c].op = "run_loop"
      THEN LoopCond(cop[c].ty, ck[c], cop[c].end)
      ELSE ck[c] < cop[c].size

\* whether the acquire loop of client c's blocking call has another iteration
\* (size_t i = 0; i < tasks.size()  and  size_t i = start; i < end)
AcquireMore(c) ==
    IF cop[c].op = "run_loop" THEN ck[c] < cop[c].end ELSE ck[c] < cop[c].size

\* the job the next jobs.emplace of client c's call stores
NewJob(c) == Job(c, ck[c], Blocking(cop[c].op))

\* A client thread enters a call; std::counting_semaphore sem(0) for the
\* blocking ones.  The loop counter starts at the first element of the span,
\* or at induction_type i = start.
Enter(c, call) ==
    /\ cpc[c] = "idle"
    /\ dpc # "done"
    /\ Blocking(call.op) => rev = "part_000"
    /\ cop' = [cop EXCEPT ![c] = call]
    /\ cpc' = [cpc EXCEPT ![c] = "lock"]
    /\ ck' = [ck EXCEPT ![c] =
                IF call.op = "run_loop" THEN Conv(call.ty, call.start) ELSE 0]
    /\ sem' = [sem EXCEPT ![c] = 0]
    /\ UNCHANGED <<pool, owner, hist>>
    /\ UNCHANGED rev

Call_detach_task(c) == Enter(c, Call("detach_task", 1, 0, 0, "size_t"))

Call_detach_tasks(c) ==
    \E n \in 0..MaxBatch : Enter(c, Call("detach_tasks", n, 0, 0, "size_t"))

Call_run_tasks(c) ==
    \E n \in 0..MaxBatch : Enter(c, Call("run_tasks", n, 0, 0, "size_t"))

\* run_loop is entered with the arguments whose enqueue loop makes at most
\* MaxQueue jobs, or never ends
Call_run_loop(c, starts, ends, types) ==
    \E s \in starts, e \in ends, ty \in types :
        /\ Enter(c, Call("run_loop", 0, s, e, ty))
        /\ LoopEndsWithin(ty, s, e, MaxQueue) \/ LoopNeverEnds(ty, s, e)

\* an enqueue that goes on without taking data_lock
C_lock_nolock(c) ==
    /\ cpc[c] = "lock"
    /\ cpc' = [cpc EXCEPT ![c] = "push"]
    /\ UNCHANGED <<pool, cop, ck, sem, owner, hist>>
    /\ UNCHANGED rev

\* std::scoped_lock<std::mutex> lock(data_lock)
C_lock(c) ==
    /\ cpc[c] = "lock"
    /\ data_lock = NoThread
    /\ data_lock' = ClientThread(c)
    /\ cpc' = [cpc EXCEPT ![c] = "push"]
    /\ UNCHANGED <<running, nthreads, jobs, cv, wpc, wjob>>
    /\ UNCHANGED <<cop, ck, sem, owner, hist>>
    /\ UNCHANGED rev

\* an emplace at the head of the queue
emplace_front(q, j) == <<j>> \o q

\* jobs.emplace(...)
emplace(q, j) == Append(q, j)

\* the number of jobs client c's call has enqueued so far
Pushed(c) == Cardinality({i \in 1..Len(enq) : enq[i].c = c})

\* one iteration of the enqueue loop (the single emplace of detach_task),
\* with the lock held.  An enqueue loop of run_loop that never ends is
\* followed for its first MaxQueue iterations.
C_push(c) ==
    /\ cpc[c] = "push"
    /\ PushMore(c)
    /\ cop[c].op = "run_loop" => Pushed(c) < MaxQueue
    /\ jobs' = emplace(jobs, NewJob(c))
    /\ enq' = Append(enq, NewJob(c))
    /\ ck' = [ck EXCEPT ![c] =
                IF cop[c].op = "run_loop" THEN Incr(cop[c].ty, @) ELSE @ + 1]
    /\ UNCHANGED <<running, nthreads, data_lock, cv, wpc, wjob>>
    /\ UNCHANGED <<cpc, cop, sem, owner, deq, begun, done, stopq, stopn>>
    /\ UNCHANGED rev

\* part_000: the end of the enqueue loop and of the scope of lock: data_lock
\* is released
C_unlock(c) ==
    /\ rev = "part_000"
    /\ cpc[c] = "push"
    /\ ~PushMore(c)
    /\ data_lock' = NoThread
    /\ cpc' = [cpc EXCEPT ![c] = "notify"]
    /\ UNCHANGED <<running, nthreads, jobs, cv, wpc, wjob>>
    /\ UNCHANGED <<cop, ck, sem, owner, hist>>
    /\ UNCHANGED rev

\* cv.notify_one(): one of the blocked threads, if there is any
WakeOne ==
    \/ /\ cv = {}
       /\ UNCHANGED <<cv, wpc>>
    \/ \E w \in cv :
          /\ cv' = cv \ {w}
          /\ wpc' = notify_one(wpc, w)

\* part_000: cv.notify_one() of detach_task, after which the call returns
C_notify_one(c) ==
    /\ cpc[c] = "notify"
    /\ cop[c].op = "detach_task"
    /\ WakeOne
    /\ cpc' = [cpc EXCEPT ![c] = "ret"]
    /\ UNCHANGED <<running, nthreads, jobs, data_lock, wjob>>
    /\ UNCHANGED <<cop, ck, sem, owner, hist>>
    /\ UNCHANGED rev

\* part_000: cv.notify_all() of detach_tasks (which then returns) and of run_tasks and
\* run_loop (which go on to the acquire loop: size_t i = 0, size_t i = start)
C_notify_all(c) ==
    /\ cpc[c] = "notify"
    /\ cop[c].op # "detach_task"
    /\ wpc' = notify_all(wpc)
    /\ cv' = {}
    /\ cpc' = [cpc EXCEPT ![c] = IF Blocking(cop[c].op) THEN "acquire" ELSE "ret"]
    /\ ck' = [ck EXCEPT ![c] = IF cop[c].op = "run_loop" THEN cop[c].start ELSE 0]
    /\ UNCHANGED <<running, nthreads, jobs, data_lock, wjob>>
    /\ UNCHANGED <<cop, sem, owner, hist>>
    /\ UNCHANGED rev

\* ThreadPool.hpp: cv.notify_one() of detach_task, with data_lock still held
H_notify_one(c) ==
    /\ rev = "ThreadPool.hpp"
    /\ cpc[c] = "push"
    /\ ~PushMore(c)
    /\ cop[c].op = "detach_task"
    /\ WakeOne
    /\ cpc' = [cpc EXCEPT ![c] = "unlock"]
    /\ UNCHANGED <<running, nthreads, jobs, data_lock, wjob>>
    /\ UNCHANGED <<cop, ck, sem, owner, hist>>
    /\ UNCHANGED rev

\* ThreadPool.hpp: cv.notify_all() of detach_tasks, with data_lock still held
H_notify_all(c) ==
    /\ rev = "ThreadPool.hpp"
    /\ cpc[c] = "push"
    /\ ~PushMore(c)
    /\ cop[c].op = "detach_tasks"
    /\ wpc' = notify_all(wpc)
    /\ cv' = {}
    /\ cpc' = [cpc EXCEPT ![c] = "unlock"]
    /\ UNCHANGED <<running, nthreads, jobs, data_lock, wjob>>
    /\ UNCHANGED <<cop, ck, sem, owner, hist>>
    /\ UNCHANGED rev

\* ThreadPool.hpp: the call returns and the std::unique_lock releases data_lock
H_unlock(c) ==
    /\ cpc[c] = "unlock"
    /\ data_lock' = NoThread
    /\ cpc' = [cpc EXCEPT ![c] = "ret"]
    /\ UNCHANGED <<running, nthreads, jobs, cv, wpc, wjob>>
    /\ UNCHANGED <<cop, ck, sem, owner, hist>>
    /\ UNCHANGED rev

\* sem.acquire(): blocks while the count is 0, then takes one
C_acquire(c) ==
    /\ cpc[c] = "acquire"
    /\ AcquireMore(c)
    /\ sem[c] > 0
    /\ sem' = [sem EXCEPT ![c] = @ - 1]
    /\ ck' = [ck EXCEPT ![c] = @ + 1]
    /\ UNCHANGED <<pool, cpc, cop, owner, hist>>
    /\ UNCHANGED rev

\* the end of the acquire loop: the blocking call returns
C_return(c) ==
    /\ cpc[c] = "acquire"
    /\ ~AcquireMore(c)
    /\ cpc' = [cpc EXCEPT ![c] = "ret"]
    /\ UNCHANGED <<pool, cop, ck, sem, owner, hist>>
    /\ UNCHANGED rev

\* --------------------------------------------------------------- the owner
\* reset(num_threads), called by the thread that owns the pool: the new
\* threads are emplaced, or std::runtime_error is thrown
reset(num_threads) ==
    /\ dpc = "idle"
    /\ IF reset_ok(num_threads)
         THEN /\ wpc' = reset_pcs(num_threads)
              /\ nthreads' = num_threads
              /\ grown' = grown \cup ((nthreads + 1)..num_threads)
              /\ threw' = FALSE
         ELSE /\ threw' = TRUE
              /\ UNCHANGED <<wpc, nthreads, grown>>
    /\ UNCHANGED <<running, jobs, data_lock, cv, wjob>>
    /\ UNCHANGED <<client, dpc, dj, hist>>
    /\ UNCHANGED rev

Reset == \E num_threads \in 0..MaxThreads : reset(num_threads)

\* ~ThreadPool: running = false, without data_lock
D_stop ==
    /\ dpc = "idle"
    /\ running' = FALSE
    /\ dpc' = "notify"
    /\ stopq' = jobs
    /\ stopn' = Len(enq)
    /\ UNCHANGED <<nthreads, jobs, data_lock, cv, wpc, wjob>>
    /\ UNCHANGED <<client, dj, threw, grown, enq, deq, begun, done>>
    /\ UNCHANGED rev

\* ~ThreadPool: cv.notify_all()
D_notify ==
    /\ dpc = "notify"
    /\ wpc' = notify_all(wpc)
    /\ cv' = {}
    /\ dpc' = "join"
    /\ UNCHANGED <<running, nthreads, jobs, data_lock, wjob>>
    /\ UNCHANGED <<client, dj, threw, grown, hist>>
    /\ UNCHANGED rev

\* a join that does not wait for the thread (a detach)
D_join_nowait ==
    /\ dpc = "join"
    /\ dj <= nthreads
    /\ dj' = dj + 1
    /\ UNCHANGED <<pool, client, dpc, threw, grown, hist>>
    /\ UNCHANGED rev

\* ~ThreadPool: thread.join() returns once that thread has left worker_loop
D_join ==
    /\ dpc = "join"
    /\ dj <= nthreads
    /\ wpc[dj] = "exit"
    /\ dj' = dj + 1
    /\ UNCHANGED <<pool, client, dpc, threw, grown, hist>>
    /\ UNCHANGED rev

\* ~ThreadPool returns after the last join
D_return ==
    /\ dpc = "join"
    /\ dj > nthreads
    /\ dpc' = "done"
    /\ UNCHANGED <<pool, client, dj, threw, grown, hist>>
    /\ UNCHANGED rev

\* ---------------------------------------------------------- specifications
\* the steps of worker_loop on a task that is not wrapped
WorkerStep(w) ==
    \/ W_test(w) \/ W_lock(w) \/ W_pred(w) \/ W_block(w) \/ W_check(w)
    \/ W_pop(w) \/ W_begin(w) \/ W_end(w)

\* the steps of a call up to its notify
EnqueueStep(c) == C_lock(c) \/ C_push(c) \/ C_unlock(c) \/ C_notify_all(c)

\* the notifies and the release of ThreadPool.hpp
OldStep(c) == H_notify_one(c) \/ H_notify_all(c) \/ H_unlock(c)

\* the acquire loop of a blocking call
BlockingStep(c) == C_acquire(c) \/ C_return(c)

Destroy == D_stop \/ D_notify \/ D_join \/ D_return

\* Spec: producers detach tasks while the workers drain the queue and the
\* owner destroys the pool at any moment.
Next ==
    \/ \E w \in Workers : WorkerStep(w)
    \/ \E w \in Workers : W_spurious(w)
    \/ \E c \in Clients : EnqueueStep(c)
    \/ \E c \in Clients : C_notify_one(c)
    \/ \E c \in Clients : OldStep(c)
    \/ \E c \in Clients : Call_detach_task(c)
    \/ \E c \in Clients : Call_detach_tasks(c)
    \/ Destroy

Spec == Init /\ [][Next]_vars

\* The scheduler runs every thread that can take a step, and a thread that
\* asks for data_lock gets it when the lock is released again and again.
\* Spurious wakeups and the entering of calls are under no obligation.
WorkerThread_step(w) == WorkerStep(w) \/ W_release(w)
ClientThread_step(c) ==
    EnqueueStep(c) \/ C_notify_one(c) \/ OldStep(c) \/ BlockingStep(c)

FairThreads ==
    /\ \A w \in Workers : WF_vars(WorkerThread_step(w)) /\ SF_vars(W_lock(w))
    /\ \A c \in Clients : WF_vars(ClientThread_step(c)) /\ SF_vars(C_lock(c))

\* The owner is not obliged to destroy the pool, but a destructor that has
\* begun keeps running.
FairDestroy == WF_vars(D_notify \/ D_join \/ D_return)

\* FairSpec: Spec under fair scheduling.
FairSpec == Spec /\ FairThreads /\ FairDestroy

\* the later revision alone, which has the blocking calls
InitNew == Init /\ rev = "part_000"

\* BlockSpec: two threads call run_tasks concurrently on a pool that is not
\* destroyed.
NextBlock ==
    \/ \E w \in Workers : WorkerStep(w)
    \/ \E w \in Workers : W_release(w)
    \/ \E w \in Workers : W_spurious(w)
    \/ \E c \in Clients : EnqueueStep(c)
    \/ \E c \in Clients : BlockingStep(c)
    \/ \E c \in Clients : Call_run_tasks(c)

BlockSpec == InitNew /\ [][NextBlock]_vars

\* LiveSpec: client 1 makes one of the batch calls while client 2 detaches a
\* task, on a pool that is not destroyed, under fair scheduling.
NextLive ==
    \/ \E w \in Workers : WorkerStep(w)
    \/ \E w \in Workers : W_release(w)
    \/ \E w \in Workers : W_spurious(w)
    \/ \E c \in Clients : EnqueueStep(c)
    \/ \E c \in Clients : C_notify_one(c)
    \/ \E c \in Clients : OldStep(c)
    \/ \E c \in Clients : BlockingStep(c)
    \/ Call_detach_task(2)
    \/ Call_detach_tasks(1)
    \/ Call_run_tasks(1)
    \/ Call_run_loop(1, 0..MaxBatch, 0..MaxBatch, {"size_t"})

LiveSpec == Init /\ [][NextLive]_vars /\ FairThreads

\* LoopSpec: client 1 calls run_loop with a body of any integral argument
\* type, on a pool that is not destroyed.
LoopArgs == {0, 1, 2, 127, 128, 129, 256, 257}

NextLoop ==
    \/ \E w \in Workers : WorkerStep(w)
    \/ \E w \in Workers : W_release(w)
    \/ \E w \in Workers : W_spurious(w)
    \/ EnqueueStep(1)
    \/ BlockingStep(1)
    \/ Call_run_loop(1, LoopArgs, LoopArgs, IndexTypes)

LoopSpec == InitNew /\ [][NextLoop]_vars

\* A task body running on worker w calls run_tasks (at most one such call per
\* worker thread in a run)
W_nest(w) ==
    /\ wpc[w] = "body"
    /\ Call_run_tasks(Nest(w))

\* the task body returns, having made no call or after its call returned
W_end_nest(w) ==
    /\ cpc[Nest(w)] \in {"idle", "ret"}
    /\ W_end(w)

NestWorkerStep(w) ==
    \/ W_test(w) \/ W_lock(w) \/ W_pred(w) \/ W_block(w) \/ W_check(w)
    \/ W_pop(w) \/ W_begin(w) \/ W_end_nest(w)

\* NestSpec: a client's run_tasks whose task bodies may themselves call
\* run_tasks on the pool.
NextNest ==
    \/ \E w \in Workers : NestWorkerStep(w)
    \/ \E w \in Workers : W_release(w)
    \/ \E w \in Workers : W_spurious(w)
    \/ \E w \in Workers : W_nest(w)
    \/ \E w \in Workers : EnqueueStep(Nest(w))
    \/ \E w \in Workers : BlockingStep(Nest(w))
    \/ EnqueueStep(1)
    \/ BlockingStep(1)
    \/ Call_run_tasks(1)

NestSpec == InitNew /\ [][NextNest]_vars

\* ResetSpec: the owner calls reset at any moment while producers detach
\* tasks and the workers drain the queue.
NextReset ==
    \/ \E w \in Workers : WorkerStep(w)
    \/ \E w \in Workers : W_spurious(w)
    \/ \E c \in Clients : EnqueueStep(c)
    \/ \E c \in Clients : C_notify_one(c)
    \/ \E c \in Clients : OldStep(c)
    \/ \E c \in Clients : Call_detach_task(c)
    \/ Call_detach_tasks(1)
    \/ Reset

ResetSpec == Init /\ [][NextReset]_vars

\* ThreadPool(): reset(std::thread::hardware_concurrency()) on the empty
\* pool, which accepts every size; the hint may be 0
Hints == 0..MaxThreads
default_size(hint) == hint

InitDefault == Init /\ \E hint \in Hints : nthreads = default_size(hint)

\* DefaultSpec: ResetSpec on a default-constructed pool.
DefaultSpec == InitDefault /\ [][NextReset]_vars

\* ------------------------------------------------------------------ claims
Range(q) == {q[i] : i \in 1..Len(q)}
Count(q, j) == Cardinality({i \in 1..Len(q) : q[i] = j})

\* the jobs client c's call has enqueued so far
BatchOf(c) == {j \in Range(enq) : j.c = c}

\* the workers that hold job j between its pop and the end of its body
Holders(j) == {w \in Workers : wjob[w] = j /\ wpc[w] \in {"call", "body"}}

\* C1: when a run_tasks call has returned, the call has enqueued each of its
\* N tasks once and the body of each has finished, whatever the other callers'
\* tasks did.
C1_CompletionBarrier ==
    \A c \in Clients :
        (cop[c].op = "run_tasks" /\ cpc[c] = "ret") =>
            /\ {j.k : j \in BatchOf(c)} = 0..(cop[c].size - 1)
            /\ BatchOf(c) \subseteq done

\* two callers have returned from non-empty batches
C1_Witness ==
    \A c \in Clients :
        /\ cop[c].op = "run_tasks" /\ cpc[c] = "ret"
        /\ cop[c].size = MaxBatch /\ nthreads = MaxThreads

\* C2: on a pool with a worker, a run_tasks call that has been entered
\* eventually returns, whatever the order of the releases and the acquires.
C2_RunTasksReturns ==
    \A c \in Clients :
        (cop[c].op = "run_tasks" /\ nthreads >= 1) ~> (cpc[c] = "ret")

\* every task of the batch has released the semaphore before the caller's
\* first acquire
C2_Witness ==
    /\ cop[1].op = "run_tasks" /\ cop[1].size = MaxBatch
    /\ cpc[1] = "acquire" /\ ck[1] = 0 /\ sem[1] = MaxBatch

\* C3: every enqueued job is in the queue or has been popped, never both and
\* never twice; a popped job is held by exactly one worker until its body
\* ends and by none afterwards; so once the queue is empty and no worker
\* holds a job, the executed jobs are exactly the submitted ones.
C3_ExactlyOnce ==
    /\ \A j \in Range(enq) :
          /\ Count(enq, j) = 1
          /\ Count(jobs, j) + Count(deq, j) = 1
          /\ Count(deq, j) = 1 =>
                IF j \in done THEN Holders(j) = {}
                              ELSE Cardinality(Holders(j)) = 1
    /\ done \subseteq begun /\ begun \subseteq Range(deq)
    /\ (jobs = <<>> /\ \A w \in Workers : wpc[w] \notin {"call", "body"})
          => done = Range(enq)

\* two producers' tasks have all been executed by two workers
C3_Witness ==
    /\ Len(enq) = 2 * MaxBatch /\ done = Range(enq) /\ running
    /\ \E i, j \in 1..Len(deq) : deq[i].c # deq[j].c

\* C4: a destructor that has cleared running and broadcast eventually returns.
C4_DestructorReturns == (dpc = "join") ~> (dpc = "done")

\* C5: on a pool with a worker that is not destroyed, the i-th enqueued job
\* is eventually dequeued and its body executed, for every i.
C5_EveryTaskRuns ==
    \A i \in 1..(MaxBatch + 1) :
        (Len(enq) >= i /\ nthreads >= 1) ~> (Len(deq) >= i /\ enq[i] \in done)

\* jobs of both clients have been enqueued and executed
C5_Witness ==
    /\ Len(enq) = MaxBatch + 1 /\ done = Range(enq)
    /\ cop[1].op = "run_loop" /\ nthreads >= 1

\* C6: the jobs are popped in the order in which they were enqueued.
C6_Fifo == Len(deq) <= Len(enq) /\ deq = SubSeq(enq, 1, Len(deq))

\* jobs of two producers have been popped
C6_Witness == Len(deq) >= 3 /\ deq[1].c # deq[3].c

\* C7: the jobs of one call lie next to each other in the order of the
\* enqueues, in their order in the batch, and while a batch is partly
\* appended its caller holds data_lock and no worker is between taking the
\* lock and popping.
C7_BatchAtomic ==
    /\ \A i, j \in 1..Len(enq) :
          (i < j /\ enq[i].c = enq[j].c) => j - i = enq[j].k - enq[i].k
    /\ \A c \in Clients :
          (cpc[c] = "push" /\ ck[c] > 0 /\ PushMore(c)) =>
              /\ data_lock = ClientThread(c)
              /\ \A w \in Workers : wpc[w] \notin {"pred", "block", "check", "pop"}

\* two batches of MaxBatch tasks were enqueued by concurrent calls while a
\* worker was waiting for the lock
C7_Witness ==
    /\ \A c \in Clients : cop[c].op = "detach_tasks" /\ cop[c].size = MaxBatch
    /\ cpc[1] = "push" /\ ck[1] = 1 /\ cpc[2] = "lock"
    /\ \E w \in Workers : wpc[w] \in {"lock", "relock"}

\* C8: no job that was in the queue when the destructor cleared running
\* begins to execute.
C8_QueuedDiscarded == \A j \in Range(stopq) : j \notin begun

\* C9: when the destructor has returned, every worker thread has left
\* worker_loop and every body that began has finished.
C9_ShutdownWaits ==
    dpc = "done" =>
        /\ \A w \in 1..nthreads : wpc[w] = "exit"
        /\ begun = done

\* the destructor has returned from a pool that executed some jobs and
\* dropped others
C9_Witness ==
    dpc = "done" /\ nthreads = MaxThreads /\ done # {} /\ jobs # <<>>

\* C10: run_loop enqueues one job for each index of [start, end) and no
\* other, has seen each of them finish when it returns, and for start >= end
\* enqueues nothing and does not wait.
C10_RunLoop ==
    \A c \in Clients :
        cop[c].op = "run_loop" =>
            /\ {j.k : j \in BatchOf(c)} \subseteq (cop[c].start)..(cop[c].end - 1)
            /\ \A j \in BatchOf(c) : Count(enq, j) = 1
            /\ cpc[c] = "ret" =>
                  /\ {j.k : j \in BatchOf(c)} = (cop[c].start)..(cop[c].end - 1)
                  /\ BatchOf(c) \subseteq done
            /\ (cop[c].start >= cop[c].end /\ cpc[c] = "acquire") => ~AcquireMore(c)

\* C11: a reset to fewer threads than the pool has throws and leaves the
\* number of threads, the workers, the queue, the lock and the running flag
\* as they were.
C11_ShrinkRejected ==
    [][\A n \in 0..MaxThreads :
          (n < nthreads /\ reset(n)) =>
              /\ threw'
              /\ UNCHANGED <<nthreads, wpc, wjob, jobs, running, data_lock, cv>>]_vars

\* a reset has thrown on a full pool with queued jobs
C11_Witness == threw /\ nthreads = MaxThreads /\ jobs # <<>>

\* C12: the number of threads never decreases; a reset to at least the
\* current size does not throw and leaves exactly that size; the workers
\* that exist are the first nthreads, and each added one starts at the top
\* of worker_loop.
C12_GrowMonotone ==
    [][/\ nthreads' >= nthreads
       /\ \A n \in 0..MaxThreads :
             (n >= nthreads /\ reset(n)) => (nthreads' = n /\ ~threw')
       /\ \A w \in Workers :
             /\ (w <= nthreads') <=> (wpc'[w] # "none")
             /\ (nthreads < w /\ w <= nthreads') => wpc'[w] = "test"]_vars

\* a worker that a reset added is executing a job
C12_Witness ==
    /\ nthreads = MaxThreads
    /\ \E w \in grown : wpc[w] = "body" /\ wjob[w] \in Range(deq)

\* C13: a default-constructed pool has at least one worker.
C13_DefaultHasWorker == nthreads >= 1

\* C14: a worker between the unlock that follows its pop and the end of the
\* job (the call, the body, the release) does not hold data_lock.
C14_BodyOutsideLock ==
    \A w \in Workers :
        wpc[w] \in {"call", "body", "release"} => data_lock # WorkerThread(w)

\* every worker is inside a body while a producer holds the lock to push
C14_Witness ==
    /\ nthreads = MaxThreads
    /\ \A w \in Workers : wpc[w] = "body"
    /\ \E c \in Clients : cpc[c] = "push" /\ data_lock = ClientThread(c)

\* C15: every step that changes the queue is taken by the thread that holds
\* data_lock, and every step that changes the running flag is taken by the
\* owner thread while it holds data_lock.
C15_LockGuards ==
    [][/\ jobs' # jobs => data_lock # NoThread
       /\ running' # running => data_lock = OwnerThread]_vars

\* C16 as stated: if a job's body has begun, the body of every job enqueued
\* before it has begun.
C16_InsertionOrder ==
    \A i, j \in 1..Len(enq) :
        (i < j /\ enq[j] \in begun) => enq[i] \in begun

\* C16: if a job's body has begun, every job enqueued before it has been
\* dequeued: its body has begun, or a worker of a pool of two or more holds
\* it between its pop and its call. With one worker the bodies begin in
\* insertion order.
C16_StartOrder ==
    \A i, j \in 1..Len(enq) :
        (i < j /\ enq[j] \in begun) =>
            \/ enq[i] \in begun
            \/ /\ nthreads >= 2
               /\ \E w \in Workers : wpc[w] = "call" /\ wjob[w] = enq[i]

\* a later job's body has begun while an earlier job is still before its call
C16_Witness ==
    \E i, j \in 1..Len(enq) :
        i < j /\ enq[j] \in begun /\ enq[i] \notin begun

\* C17: a job pushed after the destructor cleared running is never dequeued,
\* so never begun.
C17_LateNeverRun ==
    dpc # "idle" =>
        \A i \in (stopn + 1)..Len(enq) :
            enq[i] \notin Range(deq) /\ enq[i] \notin begun

\* the destructor has joined workers that ran earlier jobs, and a job pushed
\* after the stop is still queued
C17_Witness ==
    /\ dpc = "done"
    /\ nthreads = MaxThreads
    /\ \A w \in Workers : wpc[w] = "exit"
    /\ deq # <<>>
    /\ Len(enq) > stopn
    /\ enq[Len(enq)] \in Range(jobs)

\* C20: no worker has taken front() of an empty queue, and a worker about to
\* pop finds the queue non-empty.
C20_PopNonEmpty ==
    \A w \in Workers : wpc[w] # "ub" /\ (wpc[w] = "pop" => jobs # <<>>)

\* a worker is about to pop after the destructor cleared running
C20_Witness ==
    \E w \in Workers : wpc[w] = "pop" /\ ~running /\ jobs # <<>>

\* C18: once the enqueue loop of a run_loop call has ended, the number of
\* jobs it enqueued is the number of acquisitions of its acquire loop,
\* end - start when start < end and 0 otherwise; and when the call has
\* returned, every job of its batch is done.
C18_CountsAgree ==
    \A c \in Clients :
        (cop[c].op = "run_loop" /\ cpc[c] \in {"notify", "acquire", "ret"}) =>
            /\ Cardinality({i \in 1..Len(enq) : enq[i].c = c})
                  = IF cop[c].start < cop[c].end
                      THEN cop[c].end - cop[c].start ELSE 0
            /\ cpc[c] = "ret" => BatchOf(c) \subseteq done

\* C19: the pool is never in a state where the queue is non-empty and every
\* worker is inside a task body, blocked in the acquire loop of a run_tasks
\* call whose semaphore is 0.
C19_NoNestedDeadlock ==
    ~ /\ nthreads >= 1
      /\ jobs # <<>>
      /\ \A w \in 1..nthreads :
            /\ wpc[w] = "body"
            /\ cpc[Nest(w)] = "acquire"
            /\ AcquireMore(Nest(w))
            /\ sem[Nest(w)] = 0

====
